---- MODULE Spec2Model ----
(***************************************************************************)
(* Model of the parameter grid of meas_multifit: the construction of a     *)
(* Grid from a Definition (src/src/grid/Grid.cc, class Initializer and     *)
(* Grid::Grid), its teardown, the reverse conversion Grid -> Definition,   *)
(* the parameter buffer utilities and the binary search find().            *)
(*                                                                         *)
(* Pointers to parameter components are modelled as indices into a heap    *)
(* (one heap per kind and per side); index 0 is the null pointer.  Arena   *)
(* arrays are sequences of slots; a slot records whether a constructor     *)
(* completed in it and how many times a destructor ran on it.              *)
(***************************************************************************)
EXTENDS Integers, Sequences, FiniteSets, TLC

(***************************************************************************)
(* Bounds of the model.                                                    *)
(***************************************************************************)
MaxObjects == 2
MaxFrames  == 2
MaxPix     == 2
MaxComps   == 3
MaxLen     == 3
MaxId      == 4
MaxNames   == 2
MaxCalls   == 3
MaxEpochs  == 3

(***************************************************************************)
(* Parameter component kinds (enum ParameterType) and their dimensions.    *)
(***************************************************************************)
Kinds == <<"POSITION", "RADIUS", "ELLIPTICITY">>
KindSet == {"POSITION", "RADIUS", "ELLIPTICITY"}

SIZE(E) == CASE E = "POSITION" -> 2 [] E = "RADIUS" -> 1 [] E = "ELLIPTICITY" -> 2

KindTag(E) == CHOOSE k \in 1..3 : Kinds[k] = E

Max(S) == IF S = {} THEN 0 ELSE CHOOSE x \in S : \A y \in S : y <= x


(***************************************************************************)
(* Inputs.  A Definition is                                                *)
(*   wcs     : whether the Definition has a world coordinate system        *)
(*   frames  : the FrameSet in iteration (ascending id) order              *)
(*   objects : the ObjectSet in iteration (ascending id) order; comp[E] is *)
(*             the shared_ptr to the object's component of kind E          *)
(*   comps   : the heap of definition::ParameterComponent<E> instances     *)
(* Component instances are numbered in order of first reference, which     *)
(* loses nothing: the code only compares the pointers for identity.        *)
(***************************************************************************)
FilterIds == {7, 3}

ObjectId(k) == 10 * k
FrameId(k) == 100 + 10 * k

\* The value of the c-th definition component of kind E: distinct scalars,
\* so that a value found in a buffer names the component it came from.
ValueOf(E, c) == [n \in 1..SIZE(E) |-> 1000 * KindTag(E) + 10 * c + n]

RefSeqs(M) ==
    {r \in [1..M -> 0..M] :
        \A k \in 1..M : r[k] <= 1 + Max({r[n] : n \in 1..(k - 1)})}

\* For one kind: the references of M objects and the active flags of the
\* instances referenced.
KindChoices(M) ==
    UNION {{[refs |-> r, active |-> a] : a \in [1..Max({r[n] : n \in 1..M}) -> BOOLEAN]}
            : r \in RefSeqs(M)}

Topologies(M) ==
    {t \in [KindSet -> KindChoices(M)] :
        Len(t["POSITION"].active) + Len(t["RADIUS"].active)
            + Len(t["ELLIPTICITY"].active) <= MaxComps}

MakeComps(t) ==
    [E \in KindSet |->
        [c \in 1..Len(t[E].active) |->
            [active |-> t[E].active[c], value |-> ValueOf(E, c)]]]

MakeObjects(M, t, basis) ==
    [k \in 1..M |->
        [id |-> ObjectId(k), basis |-> basis[k],
         comp |-> [E \in KindSet |-> t[E].refs[k]]]]

\* Every object has its own active Position and nothing else.
OwnPositions(M) ==
    [E \in KindSet |->
        IF E = "POSITION"
        THEN [refs |-> [k \in 1..M |-> k], active |-> [k \in 1..M |-> TRUE]]
        ELSE [refs |-> [k \in 1..M |-> 0], active |-> <<>>]]

\* Objects pos[k] of which have their own active Position, the others none.
SomePositions(M, pos) ==
    [E \in KindSet |->
        IF E = "POSITION"
        THEN [refs |-> [k \in 1..M |->
                          IF pos[k] THEN Cardinality({n \in 1..k : pos[n]}) ELSE 0],
              active |-> [c \in 1..Cardinality({n \in 1..M : pos[n]}) |-> TRUE]]
        ELSE [refs |-> [k \in 1..M |-> 0], active |-> <<>>]]

PlainFrames(N, psf, wcs) ==
    [k \in 1..N |-> [id |-> FrameId(k), filterId |-> 7, npix |-> 1, psf |-> psf, wcs |-> wcs]]

AllTrue(M) == [k \in 1..M |-> TRUE]

\* Family 1: a sharing topology t of the components of M objects, over one
\* frame with a PSF and a coordinate system.
ComponentInput(M, t) ==
    [wcs |-> TRUE, frames |-> PlainFrames(1, TRUE, TRUE),
     objects |-> MakeObjects(M, t, AllTrue(M)), comps |-> MakeComps(t)]

\* Family 2: filters fl and pixel counts px of N frames, over M objects.
LayoutInput(N, M, fl, px) ==
    [wcs |-> TRUE,
     frames |-> [k \in 1..N |-> [id |-> FrameId(k), filterId |-> fl[k],
                                 npix |-> px[k], psf |-> TRUE, wcs |-> TRUE]],
     objects |-> MakeObjects(M, OwnPositions(M), AllTrue(M)),
     comps |-> MakeComps(OwnPositions(M))]

\* Family 3: presence of the coordinate systems (w, fw), PSFs (fp), bases (bs)
\* and Positions (pos) of N frames and M objects.
PresenceInput(N, M, w, fp, fw, bs, pos) ==
    [wcs |-> w,
     frames |-> [k \in 1..N |-> [id |-> FrameId(k), filterId |-> 7, npix |-> 1,
                                 psf |-> fp[k], wcs |-> fw[k]]],
     objects |-> MakeObjects(M, SomePositions(M, pos), bs),
     comps |-> MakeComps(SomePositions(M, pos))]

\* Family 4: a collaborator (allocation, footprint, PSF, basis) throws inside
\* the constructor of one Frame, Object or Source.
NoFail == [where |-> "none", k |-> 0]

FailPoints(N, M) ==
    {[where |-> "frame", k |-> n] : n \in 1..N}
        \cup {[where |-> "object", k |-> n] : n \in 1..M}
        \cup {[where |-> "source", k |-> n] : n \in 1..(N * M)}

\* The Definitions and failure points the Grid is built from.
IsInput(d, f) ==
    \/ \E M \in 1..MaxObjects : \E t \in Topologies(M) :
          d = ComponentInput(M, t) /\ f = NoFail
    \/ \E N \in 0..MaxFrames, M \in 0..MaxObjects :
          \E fl \in [1..N -> FilterIds], px \in [1..N -> 1..MaxPix] :
             d = LayoutInput(N, M, fl, px) /\ f = NoFail
    \/ \E N \in 0..MaxFrames, M \in 0..MaxObjects, w \in BOOLEAN :
          \E fp \in [1..N -> BOOLEAN], fw \in [1..N -> BOOLEAN],
             bs \in [1..M -> BOOLEAN], pos \in [1..M -> BOOLEAN] :
             d = PresenceInput(N, M, w, fp, fw, bs, pos) /\ f = NoFail
    \/ \E N \in 0..MaxFrames, M \in 0..MaxObjects :
          /\ d = LayoutInput(N, M, [k \in 1..N |-> 7], [k \in 1..N |-> 1])
          /\ f \in FailPoints(N, M)

(***************************************************************************)
(* State.                                                                  *)
(***************************************************************************)
VARIABLES
    definition,         \* the Definition the Grid is built from
    failAt,             \* the constructor in which a collaborator throws
    pc,                 \* position in Grid::Grid / initializeGrid / ~Grid
    wcs,                \* Grid::_wcs (TRUE: set)
    frames,             \* the Frame arena: slots of Grid::frames
    objects,            \* the Object arena: slots of Grid::objects
    sources,            \* the Source arena: slots of Grid::sources
    framesLast,         \* frames._last - frames._first
    objectsLast,        \* objects._last - objects._first
    sourcesLast,        \* sources._last - sources._first
    filters,            \* Grid::_filters: filter id -> filter index
    filterCount,        \* Grid::_filterCount
    coefficientCount,   \* Grid::_coefficientCount
    pixelCount,         \* Grid::_pixelCount
    parameterCount,     \* Grid::_parameterCount
    gcomps,             \* heap of grid::ParameterComponent<E>, per kind
    ptrVec,             \* positions, radii, ellipticities (_ptrVec), per kind
    cursor,             \* loop variables of initializeGrid / destroyGrid
    released,           \* the raw buffers have been released
    op,                 \* the last operation on the built Grid and its result
    search,             \* one call of find(array, id)
    registry,           \* ModelFactory::_registry: name -> factory
    calls,              \* the calls made on the registry, with their results
    likelihood          \* one ProjectedLikelihood and its construction

gridVars == <<definition, failAt, pc, wcs, frames, objects, sources, framesLast,
              objectsLast, sourcesLast, filters, filterCount, coefficientCount,
              pixelCount, parameterCount, gcomps, ptrVec, cursor, released, op>>

vars == <<definition, failAt, pc, wcs, frames, objects, sources, framesLast,
          objectsLast, sourcesLast, filters, filterCount, coefficientCount,
          pixelCount, parameterCount, gcomps, ptrVec, cursor, released, op, search,
          registry, calls, likelihood>>

NumFrames == Len(definition.frames)
NumObjects == Len(definition.objects)

\* A slot of raw arena storage: no constructor has run in it.
RawSlot == [ctor |-> "raw", dtor |-> 0]

NoOp == [name |-> "none", outcome |-> "none", nullDeref |-> FALSE, hasBuffer |-> FALSE,
         buffer |-> <<>>, written |-> {}, def |-> <<>>,
         input |-> <<>>, visits |-> <<>>, passed |-> FALSE, penalty |-> 0]

NoSearch == [pc |-> "idle", array |-> <<>>, id |-> 0, iter1 |-> 0, count |-> 0,
             reads |-> {}, result |-> "none", found |-> 0]

\* Grid::Grid up to the call of initializeGrid: the counters are zero, the
\* three buffers are allocated for the element counts, the coordinate system
\* is cloned if there is one, and the cursors are at the start of the buffers.
GridInit ==
    /\ IsInput(definition, failAt)
    /\ pc = "frames"
    /\ wcs = definition.wcs
    /\ frames = [k \in 1..NumFrames |-> RawSlot]
    /\ objects = [k \in 1..NumObjects |-> RawSlot]
    /\ sources = [k \in 1..(NumFrames * NumObjects) |-> RawSlot]
    /\ framesLast = 0
    /\ objectsLast = 0
    /\ sourcesLast = 0
    /\ filters = <<>>
    /\ filterCount = 0
    /\ coefficientCount = 0
    /\ pixelCount = 0
    /\ parameterCount = 0
    /\ gcomps = [E \in KindSet |-> <<>>]
    /\ ptrVec = [E \in KindSet |-> <<>>]
    /\ cursor = [frameCount |-> 0, kind |-> 1, i |-> 0, j |-> 0, mode |-> "none"]
    /\ released = FALSE
    /\ op = NoOp

\* The registry before any registration.
NoRegistry == registry = <<>> /\ calls = <<>>

NoLikelihood == [pc |-> "idle", footprints |-> <<>>, totPixels |-> 0, epochs |-> <<>>,
                 dataOffset |-> 0, k |-> 0, data |-> <<>>, weights |-> <<>>,
                 rows |-> <<>>]

Init == GridInit /\ search = NoSearch /\ NoRegistry /\ likelihood = NoLikelihood

(***************************************************************************)
(* Initializer::initializeGrid: the frame loop.                            *)
(***************************************************************************)
\* A slot whose constructor exited by an exception.
ThrewSlot == [ctor |-> "threw", dtor |-> 0]

\* A mutation of FilterInsert: a key already present takes the new index.
FilterInsertOverwrite(m, key, val) ==
    [k \in DOMAIN m \cup {key} |-> IF k = key THEN val ELSE m[k]]

\* _filters.insert(std::make_pair(filterId, _filterCount)): a key already
\* present keeps its index.
FilterInsert(m, key, val) ==
    IF key \in DOMAIN m THEN m
    ELSE [k \in DOMAIN m \cup {key} |-> IF k = key THEN val ELSE m[k]]

\* A mutation of NewFrame: the frame index is taken for the pixel offset.
NewFrameSwapped(def, pixelOffset, filterIndex, frameIndex) ==
    [ctor |-> "complete", dtor |-> 0, id |-> def.id, filterId |-> def.filterId,
     psf |-> def.psf, wcs |-> def.wcs, pixelOffset |-> frameIndex,
     pixelCount |-> def.npix, filterIndex |-> filterIndex, frameIndex |-> frameIndex]

\* Frame::Frame(def, pixelOffset, filterIndex, frameIndex); _pixelCount is
\* the footprint's pixel count.
NewFrame(def, pixelOffset, filterIndex, frameIndex) ==
    [ctor |-> "complete", dtor |-> 0, id |-> def.id, filterId |-> def.filterId,
     psf |-> def.psf, wcs |-> def.wcs, pixelOffset |-> pixelOffset,
     pixelCount |-> def.npix, filterIndex |-> filterIndex, frameIndex |-> frameIndex]

\* new (output.frames._last++) grid::Frame(...): the cursor moves before the
\* constructor runs, whether the constructor completes or throws.
ConstructFrame ==
    /\ pc = "frames"
    /\ cursor.frameCount < NumFrames
    /\ LET def == definition.frames[cursor.frameCount + 1]
           inserted == def.filterId \notin DOMAIN filters
           newFilters == FilterInsert(filters, def.filterId, filterCount)
           slot == framesLast + 1
       IN /\ filters' = newFilters
          /\ filterCount' = IF inserted THEN filterCount + 1 ELSE filterCount
          /\ framesLast' = slot
          /\ IF failAt = [where |-> "frame", k |-> slot]
             THEN /\ frames' = [frames EXCEPT ![slot] = ThrewSlot]
                  /\ pc' = "catch"
                  /\ UNCHANGED <<pixelCount, cursor>>
             ELSE /\ frames' = [frames EXCEPT ![slot] =
                                   NewFrame(def, pixelCount, newFilters[def.filterId],
                                            cursor.frameCount)]
                  /\ pixelCount' = pixelCount + frames'[slot].pixelCount
                  /\ cursor' = [cursor EXCEPT !.frameCount = @ + 1]
                  /\ pc' = "frames"
    /\ UNCHANGED <<definition, failAt, wcs, objects, sources, objectsLast, sourcesLast,
                   coefficientCount, parameterCount, gcomps, ptrVec, released, op, search, registry, calls, likelihood>>

FramesDone ==
    /\ pc = "frames"
    /\ cursor.frameCount = NumFrames
    /\ pc' = "objects"
    /\ UNCHANGED <<definition, failAt, wcs, frames, objects, sources, framesLast,
                   objectsLast, sourcesLast, filters, filterCount, coefficientCount,
                   pixelCount, parameterCount, gcomps, ptrVec, cursor, released, op, search,
          registry, calls, likelihood>>

(***************************************************************************)
(* Initializer::initializeGrid: the object loop.                           *)
(***************************************************************************)
\* grid::Object::Object(definition::Object, coefficientOffset, frameCount,
\* filterCount): the component pointers start null, the source range empty.
NewObject(def, coefficientOffset) ==
    [ctor |-> "complete", dtor |-> 0, id |-> def.id, basis |-> def.basis,
     coefficientOffset |-> coefficientOffset,
     coefficientCount |-> IF def.basis THEN 2 ELSE 0,
     comp |-> [E \in KindSet |-> 0], sourcesFirst |-> 0, sourcesLast |-> 0]

ConstructObject ==
    /\ pc = "objects"
    /\ objectsLast < NumObjects
    /\ LET slot == objectsLast + 1
           def == definition.objects[slot]
       IN /\ objectsLast' = slot
          /\ IF failAt = [where |-> "object", k |-> slot]
             THEN /\ objects' = [objects EXCEPT ![slot] = ThrewSlot]
                  /\ pc' = "catch"
                  /\ UNCHANGED coefficientCount
             ELSE /\ objects' = [objects EXCEPT ![slot] = NewObject(def, coefficientCount)]
                  /\ coefficientCount' = coefficientCount + objects'[slot].coefficientCount
                  /\ pc' = "objects"
    /\ UNCHANGED <<definition, failAt, wcs, frames, sources, framesLast, sourcesLast,
                   filters, filterCount, pixelCount, parameterCount, gcomps, ptrVec,
                   cursor, released, op, search, registry, calls, likelihood>>

ObjectsDone ==
    /\ pc = "objects"
    /\ objectsLast = NumObjects
    /\ pc' = "transfer"
    /\ cursor' = [cursor EXCEPT !.kind = 1]
    /\ UNCHANGED <<definition, failAt, wcs, frames, objects, sources, framesLast,
                   objectsLast, sourcesLast, filters, filterCount, coefficientCount,
                   pixelCount, parameterCount, gcomps, ptrVec, released, op, search, registry, calls, likelihood>>
(***************************************************************************)
(* Initializer::transferComponents<E>(Definition, Grid, Container).         *)
(***************************************************************************)
\* A mutation of InsertedD: every reference is taken for a new component.
InsertedDAlways(unique, dp) == TRUE

\* std::map<DPtr,GPtr>::insert(item).second: whether the definition component
\* is new to the map.
InsertedD(unique, dp) == dp \notin DOMAIN unique

MapPut(m, key, val) == [k \in DOMAIN m \cup {key} |-> IF k = key THEN val ELSE m[k]]

\* new grid::ParameterComponent<E>(*dp, offset)
NewGridComponent(dcomp, offset) ==
    [value |-> dcomp.value, active |-> dcomp.active, offset |-> offset]

\* A mutation of AdvanceParameterCount: one scalar per component.
AdvanceByOne(count, E) == count + 1

\* output._parameterCount += grid::ParameterComponent<E>::SIZE
AdvanceParameterCount(count, E) == count + SIZE(E)

\* One iteration of the loop over the objects; st holds the map `unique`, the
\* heap of grid components of kind E, _parameterCount, container._ptrVec and
\* the grid objects.
TransferStepToGrid(E, st, k) ==
    LET dp == definition.objects[k].comp[E]
    IN  IF dp = 0 THEN st
        ELSE LET isNew == InsertedD(st.unique, dp)
                 dcomp == definition.comps[E][dp]
                 gp == IF isNew THEN Len(st.heap) + 1 ELSE st.unique[dp]
                 st1 == IF ~isNew THEN st
                        ELSE IF dcomp.active
                        THEN [unique |-> MapPut(st.unique, dp, gp),
                              heap |-> Append(st.heap, NewGridComponent(dcomp, st.count)),
                              count |-> AdvanceParameterCount(st.count, E),
                              vec |-> Append(st.vec, gp),
                              objs |-> st.objs]
                        ELSE [unique |-> MapPut(st.unique, dp, gp),
                              heap |-> Append(st.heap, NewGridComponent(dcomp, -1)),
                              count |-> st.count,
                              vec |-> st.vec,
                              objs |-> st.objs]
             IN  [st1 EXCEPT !.objs[k].comp[E] = gp]

RECURSIVE TransferLoopToGrid(_, _, _, _)
TransferLoopToGrid(E, st, k, n) ==
    IF k > n THEN st
    ELSE TransferLoopToGrid(E, TransferStepToGrid(E, st, k), k + 1, n)

TransferComponents(E) ==
    /\ pc = "transfer"
    /\ Kinds[cursor.kind] = E
    /\ LET st == TransferLoopToGrid(E,
                    [unique |-> <<>>, heap |-> <<>>, count |-> parameterCount,
                     vec |-> ptrVec[E], objs |-> objects],
                    1, objectsLast)
       IN /\ gcomps' = [gcomps EXCEPT ![E] = st.heap]
          /\ parameterCount' = st.count
          /\ ptrVec' = [ptrVec EXCEPT ![E] = st.vec]
          /\ objects' = st.objs
    /\ IF cursor.kind = 3
       THEN /\ pc' = "validate"
            /\ cursor' = [cursor EXCEPT !.i = 0]
       ELSE /\ pc' = "transfer"
            /\ cursor' = [cursor EXCEPT !.kind = @ + 1]
    /\ UNCHANGED <<definition, failAt, wcs, frames, sources, framesLast, objectsLast,
                   sourcesLast, filters, filterCount, coefficientCount, pixelCount,
                   released, op, search, registry, calls, likelihood>>

(***************************************************************************)
(* Initializer::initializeGrid: validation and the source loop.            *)
(***************************************************************************)
\* grid::Object::validate(): an object without a basis needs a PSF in every
\* frame.
ValidateThrows(object) ==
    /\ ~object.basis
    /\ \E k \in 1..framesLast : ~frames[k].psf

\* A mutation of SourcesFirst: every range starts at the start of the arena.
SourcesFirstAtStart(last) == 0

\* i->sources._first = output.sources._last
SourcesFirst(last) == last

Validate ==
    /\ pc = "validate"
    /\ cursor.i < objectsLast
    /\ IF ValidateThrows(objects[cursor.i + 1])
       THEN /\ pc' = "catch"
            /\ UNCHANGED <<objects, cursor>>
       ELSE /\ objects' = [objects EXCEPT ![cursor.i + 1].sourcesFirst =
                                                  SourcesFirst(sourcesLast)]
            /\ cursor' = [cursor EXCEPT !.j = 0]
            /\ pc' = "sources"
    /\ UNCHANGED <<definition, failAt, wcs, frames, sources, framesLast, objectsLast,
                   sourcesLast, filters, filterCount, coefficientCount, pixelCount,
                   parameterCount, gcomps, ptrVec, released, op, search, registry, calls, likelihood>>

\* Source::Source(frame, object, wcs): the set of ways the constructor can
\* end.  Reading the value of an absent Position dereferences a null
\* pointer: the process dies, or the read yields garbage and the constructor
\* goes on.
SourceOutcomes(frame, object, w, j, i, collaboratorThrows) ==
    LET noPosition == object.comp["POSITION"] = 0
        nullDeref == noPosition /\ ((w /\ frame.wcs) \/ frame.psf)
        done == [ctor |-> "complete", dtor |-> 0, frame |-> j, object |-> i,
                 nullDeref |-> nullDeref,
                 transform |-> IF ~w THEN "identity"
                               ELSE IF noPosition THEN "garbage" ELSE "composed",
                 localPsf |-> frame.psf,
                 basis |-> IF ~object.basis THEN "none"
                           ELSE IF frame.psf THEN "convolved" ELSE "own"]
        rest == IF collaboratorThrows \/ (~object.basis /\ ~frame.psf)
                THEN ThrewSlot ELSE done
    IN  IF w /\ ~frame.wcs THEN {ThrewSlot}
        ELSE IF ~w /\ frame.wcs THEN {ThrewSlot}
        ELSE IF nullDeref THEN {[ctor |-> "crash", dtor |-> 0], rest}
        ELSE {rest}

\* new (output.sources._last++) grid::Source(*j, *i, output.getWcs())
ConstructSource ==
    /\ pc = "sources"
    /\ cursor.j < framesLast
    /\ LET slot == sourcesLast + 1
       IN /\ sourcesLast' = slot
          /\ \E out \in SourceOutcomes(frames[cursor.j + 1], objects[cursor.i + 1], wcs,
                                       cursor.j + 1, cursor.i + 1,
                                       failAt = [where |-> "source", k |-> slot]) :
                /\ sources' = [sources EXCEPT ![slot] = out]
                /\ pc' = CASE out.ctor = "complete" -> "sources"
                           [] out.ctor = "threw" -> "catch"
                           [] out.ctor = "crash" -> "crashed"
                /\ cursor' = IF out.ctor = "complete"
                             THEN [cursor EXCEPT !.j = @ + 1] ELSE cursor
    /\ UNCHANGED <<definition, failAt, wcs, frames, objects, framesLast, objectsLast,
                   filters, filterCount, coefficientCount, pixelCount, parameterCount,
                   gcomps, ptrVec, released, op, search, registry, calls, likelihood>>

SourcesDone ==
    /\ pc = "sources"
    /\ cursor.j = framesLast
    /\ objects' = [objects EXCEPT ![cursor.i + 1].sourcesLast = sourcesLast]
    /\ cursor' = [cursor EXCEPT !.i = @ + 1]
    /\ pc' = "validate"
    /\ UNCHANGED <<definition, failAt, wcs, frames, sources, framesLast, objectsLast,
                   sourcesLast, filters, filterCount, coefficientCount, pixelCount,
                   parameterCount, gcomps, ptrVec, released, op, search, registry, calls, likelihood>>

\* The object loop ends: initializeGrid and Grid::Grid return.
Built ==
    /\ pc = "validate"
    /\ cursor.i = objectsLast
    /\ pc' = "built"
    /\ UNCHANGED <<definition, failAt, wcs, frames, objects, sources, framesLast,
                   objectsLast, sourcesLast, filters, filterCount, coefficientCount,
                   pixelCount, parameterCount, gcomps, ptrVec, cursor, released, op, search,
          registry, calls, likelihood>>

(***************************************************************************)
(* Initializer::destroyGrid, entered from the catch block of               *)
(* initializeGrid (mode "unwind") or from Grid::~Grid (mode "dtor").       *)
(***************************************************************************)
Catch ==
    /\ pc = "catch"
    /\ pc' = "destroySources"
    /\ cursor' = [cursor EXCEPT !.i = 0, !.mode = "unwind"]
    /\ UNCHANGED <<definition, failAt, wcs, frames, objects, sources, framesLast,
                   objectsLast, sourcesLast, filters, filterCount, coefficientCount,
                   pixelCount, parameterCount, gcomps, ptrVec, released, op, search, registry, calls, likelihood>>

Destructor ==
    /\ pc = "built"
    /\ pc' = "destroySources"
    /\ cursor' = [cursor EXCEPT !.i = 0, !.mode = "dtor"]
    /\ op' = NoOp
    /\ UNCHANGED <<definition, failAt, wcs, frames, objects, sources, framesLast,
                   objectsLast, sourcesLast, filters, filterCount, coefficientCount,
                   pixelCount, parameterCount, gcomps, ptrVec, released, search, registry, calls, likelihood>>

\* DestroyGridElement<T>::operator(): p.~T()
Destroyed(slot) == [slot EXCEPT !.dtor = @ + 1]

\* The pc after a destructor ran on `slot`: running it on storage in which no
\* constructor completed is undefined; the process dies or goes on.
AfterDestroy(slot, here) ==
    IF slot.ctor = "complete" THEN {here} ELSE {here, "crashed"}

DestroySource ==
    /\ pc = "destroySources"
    /\ cursor.i < sourcesLast
    /\ sources' = [sources EXCEPT ![cursor.i + 1] = Destroyed(@)]
    /\ cursor' = [cursor EXCEPT !.i = @ + 1]
    /\ pc' \in AfterDestroy(sources[cursor.i + 1], "destroySources")
    /\ UNCHANGED <<definition, failAt, wcs, frames, objects, framesLast, objectsLast,
                   sourcesLast, filters, filterCount, coefficientCount, pixelCount,
                   parameterCount, gcomps, ptrVec, released, op, search, registry, calls, likelihood>>

DestroyObject ==
    /\ pc = "destroyObjects"
    /\ cursor.i < objectsLast
    /\ objects' = [objects EXCEPT ![cursor.i + 1] = Destroyed(@)]
    /\ cursor' = [cursor EXCEPT !.i = @ + 1]
    /\ pc' \in AfterDestroy(objects[cursor.i + 1], "destroyObjects")
    /\ UNCHANGED <<definition, failAt, wcs, frames, sources, framesLast, objectsLast,
                   sourcesLast, filters, filterCount, coefficientCount, pixelCount,
                   parameterCount, gcomps, ptrVec, released, op, search, registry, calls, likelihood>>

DestroyFrame ==
    /\ pc = "destroyFrames"
    /\ cursor.i < framesLast
    /\ frames' = [frames EXCEPT ![cursor.i + 1] = Destroyed(@)]
    /\ cursor' = [cursor EXCEPT !.i = @ + 1]
    /\ pc' \in AfterDestroy(frames[cursor.i + 1], "destroyFrames")
    /\ UNCHANGED <<definition, failAt, wcs, objects, sources, framesLast, objectsLast,
                   sourcesLast, filters, filterCount, coefficientCount, pixelCount,
                   parameterCount, gcomps, ptrVec, released, op, search, registry, calls, likelihood>>

\* A mutation of RangeAfter: the Frames are destroyed right after the Sources.
RangeAfterSkipsObjects(range) == "destroyFrames"

\* The order of the three std::for_each of destroyGrid: sources, objects,
\* frames.
RangeAfter(range) ==
    CASE range = "destroySources" -> "destroyObjects"
      [] range = "destroyObjects" -> "destroyFrames"

\* One std::for_each of destroyGrid ends and the next begins.
DestroyNextRange ==
    /\ \/ pc = "destroySources" /\ cursor.i = sourcesLast
       \/ pc = "destroyObjects" /\ cursor.i = objectsLast
    /\ pc' = RangeAfter(pc)
    /\ cursor' = [cursor EXCEPT !.i = 0]
    /\ UNCHANGED <<definition, failAt, wcs, frames, objects, sources, framesLast,
                   objectsLast, sourcesLast, filters, filterCount, coefficientCount,
                   pixelCount, parameterCount, gcomps, ptrVec, released, op, search, registry, calls, likelihood>>

\* destroyGrid returns; the members of Grid are destroyed, which releases the
\* three raw buffers (after `throw;` in mode "unwind", at the end of ~Grid in
\* mode "dtor").
Release ==
    /\ pc = "destroyFrames"
    /\ cursor.i = framesLast
    /\ released' = TRUE
    /\ pc' = IF cursor.mode = "unwind" THEN "failed" ELSE "destroyed"
    /\ UNCHANGED <<definition, failAt, wcs, frames, objects, sources, framesLast,
                   objectsLast, sourcesLast, filters, filterCount, coefficientCount,
                   pixelCount, parameterCount, gcomps, ptrVec, cursor, op, search, registry, calls, likelihood>>

(***************************************************************************)
(* Parameter buffers.  A buffer is a function on 0..n-1.                    *)
(***************************************************************************)
BufferBases == {5000}

\* The buffers a caller passes: n distinct scalars.
Buffers(n) == {[k \in 0..(n - 1) |-> b + k] : b \in BufferBases}

\* detail::ParameterComponentTraits<E>::readParameters(paramIter, value):
\* value becomes the SIZE scalars starting at paramIter.
ReadParameters(E, buffer, at) == [n \in 1..SIZE(E) |-> buffer[at + n - 1]]

\* detail::ParameterComponentTraits<E>::writeParameters(paramIter, value):
\* the SIZE scalars of value are stored starting at paramIter.
WriteParametersAt(E, buffer, at, value) ==
    [k \in DOMAIN buffer |->
        IF at <= k /\ k < at + SIZE(E) THEN value[k - at + 1] ELSE buffer[k]]

(***************************************************************************)
(* Initializer::makeDefinition and transferComponents<E>(Grid, Definition, *)
(* paramIter).                                                             *)
(***************************************************************************)
\* definition::Frame(grid::Frame const &)
DefinitionFrame(f) ==
    [id |-> f.id, filterId |-> f.filterId, npix |-> f.pixelCount, psf |-> f.psf,
     wcs |-> f.wcs]

\* definition::Object(grid::Object const &): the component pointers are null
\* until transferComponents sets them.
DefinitionObject(o) ==
    [id |-> o.id, basis |-> o.basis, comp |-> [E \in KindSet |-> 0]]

\* std::set::insert into a set ordered by id.
SetInsert(set, x) ==
    IF \E k \in 1..Len(set) : set[k].id = x.id THEN set
    ELSE LET before == Cardinality({k \in 1..Len(set) : set[k].id < x.id})
         IN  SubSeq(set, 1, before) \o <<x>> \o SubSeq(set, before + 1, Len(set))

RECURSIVE InsertAll(_, _, _, _)
InsertAll(set, array, k, n) ==
    IF k > n THEN set
    ELSE InsertAll(SetInsert(set, array[k]), array, k + 1, n)

\* A mutation of InsertedG: every reference is taken for a new component.
InsertedGAlways(unique, gp) == TRUE

\* std::map<GPtr,DPtr>::insert(item).second: whether the grid component is new
\* to the map.
InsertedG(unique, gp) == gp \notin DOMAIN unique

\* A mutation of ReadSource: the offset of the component is left out.
ReadSourceNoOffset(gcomp) == 0

\* paramIter + gp->offset: where the value of an active component is read.
ReadSource(gcomp) == gcomp.offset

\* definition::ParameterComponent<E>::make(gp->getValue(), gp->isActive()),
\* then readParameters if a buffer was given and the component is active.
NewDefinitionComponent(E, gcomp, hasBuffer, paramIter) ==
    [active |-> gcomp.active,
     value |-> IF hasBuffer /\ gcomp.active
               THEN ReadParameters(E, paramIter, ReadSource(gcomp))
               ELSE gcomp.value]

\* One iteration of the loop over the objects; st holds the map `unique`, the
\* heap of new definition components of kind E and the output objects.
TransferStepToDefinition(E, st, k, hasBuffer, paramIter) ==
    LET gp == objects[k].comp[E]
    IN  IF gp = 0 THEN st
        ELSE LET isNew == InsertedG(st.unique, gp)
                 dp == IF isNew THEN Len(st.heap) + 1 ELSE st.unique[gp]
                 st1 == IF ~isNew THEN st
                        ELSE [unique |-> MapPut(st.unique, gp, dp),
                              heap |-> Append(st.heap,
                                         NewDefinitionComponent(E, gcomps[E][gp],
                                                                hasBuffer, paramIter)),
                              objs |-> st.objs]
             IN  [st1 EXCEPT !.objs[k].comp[E] = dp]

RECURSIVE TransferLoopToDefinition(_, _, _, _, _, _)
TransferLoopToDefinition(E, st, k, n, hasBuffer, paramIter) ==
    IF k > n THEN st
    ELSE TransferLoopToDefinition(
             E, TransferStepToDefinition(E, st, k, hasBuffer, paramIter),
             k + 1, n, hasBuffer, paramIter)

\* The Definition that Initializer::makeDefinition(grid, paramIter) returns.
\* Its coordinate system is the clone of the Grid's.
MakeDefinitionResult(hasBuffer, paramIter) ==
    LET frames0 == InsertAll(<<>>, [k \in 1..framesLast |-> DefinitionFrame(frames[k])],
                             1, framesLast)
        objects0 == InsertAll(<<>>, [k \in 1..objectsLast |-> DefinitionObject(objects[k])],
                              1, objectsLast)
        start(objs) == [unique |-> <<>>, heap |-> <<>>, objs |-> objs]
        p == TransferLoopToDefinition("POSITION", start(objects0), 1, objectsLast,
                                      hasBuffer, paramIter)
        r == TransferLoopToDefinition("RADIUS", start(p.objs), 1, objectsLast,
                                      hasBuffer, paramIter)
        e == TransferLoopToDefinition("ELLIPTICITY", start(r.objs), 1, objectsLast,
                                      hasBuffer, paramIter)
    IN  [wcs |-> TRUE, frames |-> frames0, objects |-> e.objs,
         comps |-> [E \in KindSet |->
                      CASE E = "POSITION" -> p.heap
                        [] E = "RADIUS" -> r.heap
                        [] E = "ELLIPTICITY" -> e.heap]]

\* The methods of a built Grid are const: a call leaves every member of the
\* Grid as the constructor built it, so each call is taken on the Grid as
\* built (op = NoOp) and op records the call and its result.

\* Grid::makeDefinition() and Grid::makeDefinition(paramIter).  The first
\* statement, grid.getWcs()->clone(), dereferences a null pointer when the
\* Grid has no coordinate system: the process dies, or the call yields
\* garbage and makeDefinition goes on.
MakeDefinition ==
    /\ pc = "built"
    /\ op = NoOp
    /\ \E hasBuffer \in BOOLEAN :
         \E paramIter \in (IF hasBuffer THEN Buffers(parameterCount) ELSE {<<>>}) :
           \E outcome \in (IF wcs THEN {"returned"} ELSE {"returned", "crashed"}) :
              /\ op' = [name |-> "makeDefinition", outcome |-> outcome,
                        nullDeref |-> ~wcs, hasBuffer |-> hasBuffer,
                        buffer |-> paramIter, written |-> {},
                        def |-> IF outcome = "returned"
                                THEN MakeDefinitionResult(hasBuffer, paramIter)
                                ELSE <<>>,
                        input |-> <<>>, visits |-> <<>>, passed |-> FALSE,
                        penalty |-> 0]
              /\ pc' = IF outcome = "returned" THEN "built" ELSE "crashed"
    /\ UNCHANGED <<definition, failAt, wcs, frames, objects, sources, framesLast,
                   objectsLast, sourcesLast, filters, filterCount, coefficientCount,
                   pixelCount, parameterCount, gcomps, ptrVec, cursor, released, search, registry, calls, likelihood>>

(***************************************************************************)
(* Grid::writeParameters(paramIter).                                       *)
(***************************************************************************)
\* The pointer handed to writeParameters for a component: the code passes
\* paramIter itself in every iteration.
WriteTarget(paramIter, gcomp) == paramIter

RECURSIVE WriteLoop(_, _, _, _)
WriteLoop(E, st, k, paramIter) ==
    IF k > Len(ptrVec[E]) THEN st
    ELSE LET gcomp == gcomps[E][ptrVec[E][k]]
             at == WriteTarget(paramIter, gcomp)
         IN  WriteLoop(E,
                 [buffer |-> WriteParametersAt(E, st.buffer, at, gcomp.value),
                  written |-> st.written \cup (at..(at + SIZE(E) - 1))],
                 k + 1, paramIter)

WriteParametersResult(buffer) ==
    LET p == WriteLoop("POSITION", [buffer |-> buffer, written |-> {}], 1, 0)
        r == WriteLoop("RADIUS", p, 1, 0)
    IN  WriteLoop("ELLIPTICITY", r, 1, 0)

WriteParameters ==
    /\ pc = "built"
    /\ op = NoOp
    /\ \E buffer \in Buffers(parameterCount) :
         LET st == WriteParametersResult(buffer)
         IN  op' = [name |-> "writeParameters", outcome |-> "returned",
                    nullDeref |-> FALSE, hasBuffer |-> TRUE, buffer |-> st.buffer,
                    written |-> st.written, def |-> <<>>,
                    input |-> <<>>, visits |-> <<>>, passed |-> FALSE, penalty |-> 0]
    /\ UNCHANGED <<definition, failAt, pc, wcs, frames, objects, sources, framesLast,
                   objectsLast, sourcesLast, filters, filterCount, coefficientCount,
                   pixelCount, parameterCount, gcomps, ptrVec, cursor, released, search, registry, calls, likelihood>>

(***************************************************************************)
(* Grid::checkBounds(paramIter) and Grid::clipToBounds(paramIter).         *)
(***************************************************************************)
\* The parameter vectors a caller passes: feasible everywhere, infeasible in
\* one scalar, or infeasible everywhere.  A scalar is feasible iff >= 0.
BoundsBuffers(n) ==
    {[k \in 0..(n - 1) |-> 1], [k \in 0..(n - 1) |-> -1]}
        \cup {[k \in 0..(n - 1) |-> IF k = bad THEN -1 ELSE 1] : bad \in 0..(n - 1)}

\* grid::ParameterComponent<E>::checkBounds(paramIter): the slice of the
\* component lies in the feasible domain of its kind.
ComponentCheckBounds(E, gcomp, buffer) ==
    \A n \in 0..(SIZE(E) - 1) : buffer[gcomp.offset + n] >= 0

\* grid::ParameterComponent<E>::clipToBounds(paramIter): the penalty, the
\* distance by which the slice is moved back onto the domain.
RECURSIVE ComponentPenalty(_, _, _, _)
ComponentPenalty(E, gcomp, buffer, n) ==
    IF n >= SIZE(E) THEN 0
    ELSE (IF buffer[gcomp.offset + n] < 0 THEN 0 - buffer[gcomp.offset + n] ELSE 0)
            + ComponentPenalty(E, gcomp, buffer, n + 1)

\* grid::ParameterComponent<E>::clipToBounds(paramIter): the slice after the
\* projection.
ComponentClipped(E, gcomp, buffer) ==
    [k \in DOMAIN buffer |->
        IF gcomp.offset <= k /\ k < gcomp.offset + SIZE(E) /\ buffer[k] < 0
        THEN 0 ELSE buffer[k]]

\* A mutation of ComponentArray: the components are taken Object by Object.
ComponentArrayPerObject(E) ==
    SelectSeq([k \in 1..objectsLast |-> objects[k].comp[E]],
              LAMBDA gp : gp # 0 /\ gcomps[E][IF gp = 0 THEN 1 ELSE gp].active)

\* positions, radii, ellipticities: the arrays the loops run over.
ComponentArray(E) == ptrVec[E]

\* One for loop of checkBounds; it returns false at the first failure.
RECURSIVE CheckLoop(_, _, _, _)
CheckLoop(E, st, k, paramIter) ==
    IF ~st.passed \/ k > Len(ComponentArray(E)) THEN st
    ELSE LET gp == ComponentArray(E)[k]
         IN  CheckLoop(E,
                 [passed |-> ComponentCheckBounds(E, gcomps[E][gp], paramIter),
                  visits |-> Append(st.visits, <<E, gp>>)],
                 k + 1, paramIter)

CheckBoundsResult(paramIter) ==
    LET p == CheckLoop("POSITION", [passed |-> TRUE, visits |-> <<>>], 1, paramIter)
        r == CheckLoop("RADIUS", p, 1, paramIter)
    IN  CheckLoop("ELLIPTICITY", r, 1, paramIter)

CheckBounds ==
    /\ pc = "built"
    /\ op = NoOp
    /\ \E paramIter \in BoundsBuffers(parameterCount) :
         LET st == CheckBoundsResult(paramIter)
         IN  op' = [NoOp EXCEPT !.name = "checkBounds", !.outcome = "returned",
                                !.hasBuffer = TRUE, !.buffer = paramIter,
                                !.input = paramIter, !.visits = st.visits,
                                !.passed = st.passed]
    /\ UNCHANGED <<definition, failAt, pc, wcs, frames, objects, sources, framesLast,
                   objectsLast, sourcesLast, filters, filterCount, coefficientCount,
                   pixelCount, parameterCount, gcomps, ptrVec, cursor, released,
                   search, registry, calls, likelihood>>

\* One for loop of clipToBounds: value += i->clipToBounds(paramIter).
RECURSIVE ClipLoop(_, _, _)
ClipLoop(E, st, k) ==
    IF k > Len(ComponentArray(E)) THEN st
    ELSE LET gp == ComponentArray(E)[k]
         IN  ClipLoop(E,
                 [buffer |-> ComponentClipped(E, gcomps[E][gp], st.buffer),
                  value |-> st.value + ComponentPenalty(E, gcomps[E][gp], st.buffer, 0),
                  visits |-> Append(st.visits, <<E, gp>>)],
                 k + 1)

ClipToBoundsResult(paramIter) ==
    LET p == ClipLoop("POSITION", [buffer |-> paramIter, value |-> 0, visits |-> <<>>], 1)
        r == ClipLoop("RADIUS", p, 1)
    IN  ClipLoop("ELLIPTICITY", r, 1)

ClipToBounds ==
    /\ pc = "built"
    /\ op = NoOp
    /\ \E paramIter \in BoundsBuffers(parameterCount) :
         LET st == ClipToBoundsResult(paramIter)
         IN  op' = [NoOp EXCEPT !.name = "clipToBounds", !.outcome = "returned",
                                !.hasBuffer = TRUE, !.buffer = st.buffer,
                                !.input = paramIter, !.visits = st.visits,
                                !.penalty = st.value]
    /\ UNCHANGED <<definition, failAt, pc, wcs, frames, objects, sources, framesLast,
                   objectsLast, sourcesLast, filters, filterCount, coefficientCount,
                   pixelCount, parameterCount, gcomps, ptrVec, cursor, released,
                   search, registry, calls, likelihood>>

BuildNext ==
    \/ ConstructFrame
    \/ FramesDone
    \/ ConstructObject
    \/ ObjectsDone
    \/ \E E \in KindSet : TransferComponents(E)
    \/ Validate
    \/ ConstructSource
    \/ SourcesDone
    \/ Built
    \/ Catch
    \/ Destructor
    \/ DestroySource
    \/ DestroyObject
    \/ DestroyFrame
    \/ DestroyNextRange
    \/ Release
    \/ MakeDefinition
    \/ WriteParameters
    \/ CheckBounds
    \/ ClipToBounds

(***************************************************************************)
(* find(array, id): binary search over an array of Frames or Objects.      *)
(* Only the ids of the elements matter; iterators are offsets from          *)
(* array.begin(), so offset Len(array) is array.end().                      *)
(***************************************************************************)
\* Arrays sorted ascending by distinct id, as the Grid keeps them.
SortedArrays ==
    UNION {{a \in [1..n -> 1..MaxId] : \A k \in 1..(n - 1) : a[k] < a[k + 1]}
            : n \in 0..MaxLen}

SearchIds == 0..(MaxId + 1)

\* What a read one element past the storage may yield as an id.
GarbageIds == 0..(MaxId + 1)

\* The state of the grid variables while find is studied on its own.
NoGrid ==
    /\ definition = [wcs |-> FALSE, frames |-> <<>>, objects |-> <<>>,
                     comps |-> [E \in KindSet |-> <<>>]]
    /\ failAt = NoFail
    /\ pc = "idle"
    /\ wcs = FALSE
    /\ frames = <<>>
    /\ objects = <<>>
    /\ sources = <<>>
    /\ framesLast = 0
    /\ objectsLast = 0
    /\ sourcesLast = 0
    /\ filters = <<>>
    /\ filterCount = 0
    /\ coefficientCount = 0
    /\ pixelCount = 0
    /\ parameterCount = 0
    /\ gcomps = [E \in KindSet |-> <<>>]
    /\ ptrVec = [E \in KindSet |-> <<>>]
    /\ cursor = [frameCount |-> 0, kind |-> 1, i |-> 0, j |-> 0, mode |-> "none"]
    /\ released = FALSE
    /\ op = NoOp

\* Entry of find: iter1 = array.begin(), count = array.size().
FindInit ==
    /\ NoGrid
    /\ NoRegistry
    /\ likelihood = NoLikelihood
    /\ \E a \in SortedArrays, id \in SearchIds :
         search = [pc |-> "loop", array |-> a, id |-> id, iter1 |-> 0, count |-> Len(a),
                   reads |-> {}, result |-> "none", found |-> 0]

\* count / 2
HalfOf(count) == count \div 2

\* A mutation of GoesRight: an element equal to id is skipped too.
GoesRightOnEqual(elementId, id) == elementId <= id

\* iter2->id < id
GoesRight(elementId, id) == elementId < id

\* One iteration of `while (count > 0)`.
FindStep ==
    /\ search.pc = "loop"
    /\ search.count > 0
    /\ LET step == HalfOf(search.count)
           iter2 == search.iter1 + step
       IN  search' = IF GoesRight(search.array[iter2 + 1], search.id)
                     THEN [search EXCEPT !.iter1 = iter2 + 1,
                                         !.count = @ - (step + 1),
                                         !.reads = @ \cup {iter2}]
                     ELSE [search EXCEPT !.count = step,
                                         !.reads = @ \cup {iter2}]
    /\ UNCHANGED <<gridVars, registry, calls, likelihood>>

\* After the loop: `if (iter1->id != id) throw ...; return *iter1;`.  The
\* read is made whether or not iter1 is array.end(); past the end it yields
\* garbage or kills the process.
FindCheck ==
    /\ search.pc = "loop"
    /\ search.count = 0
    /\ \E out \in (IF search.iter1 < Len(search.array)
                   THEN {[id |-> search.array[search.iter1 + 1], crash |-> FALSE]}
                   ELSE {[id |-> g, crash |-> FALSE] : g \in GarbageIds}
                            \cup {[id |-> 0, crash |-> TRUE]}) :
         search' = [search EXCEPT
                       !.pc = "done",
                       !.reads = @ \cup {search.iter1},
                       !.result = IF out.crash THEN "crashed"
                                  ELSE IF out.id # search.id THEN "NotFound"
                                  ELSE "returned",
                       !.found = search.iter1]
    /\ UNCHANGED <<gridVars, registry, calls, likelihood>>

FindNext == FindStep \/ FindCheck

SpecFind == FindInit /\ [][FindNext]_vars

(***************************************************************************)
(* ModelFactory: the registry of named factories (src/src/ModelFactory.cc). *)
(* Names and factories are numbers; factory 0 is the null pointer.          *)
(***************************************************************************)
FactoryNames == 1..MaxNames

Factories == 1..MaxNames

\* A mutation of RegistryInsert: a name already present takes the new factory.
RegistryInsertOverwrite(reg, name, factory) ==
    [k \in DOMAIN reg \cup {name} |-> IF k = name THEN factory ELSE reg[k]]

\* _registry.insert(std::make_pair(name, factory)).first: std::map::insert
\* leaves an entry that is already present as it is.
RegistryInsert(reg, name, factory) ==
    IF name \in DOMAIN reg THEN reg
    ELSE [k \in DOMAIN reg \cup {name} |-> IF k = name THEN factory ELSE reg[k]]

\* The state of the other variables while the registry is studied on its own.
RegistryInit ==
    /\ NoGrid
    /\ search = NoSearch
    /\ NoRegistry
    /\ likelihood = NoLikelihood

\* ModelFactory::registerFactory(name, factory): returns result.second.
RegisterFactory ==
    /\ Len(calls) < MaxCalls
    /\ \E name \in FactoryNames, factory \in Factories :
          /\ registry' = RegistryInsert(registry, name, factory)
          /\ calls' = Append(calls,
                          [fn |-> "registerFactory", name |-> name, factory |-> factory,
                           outcome |-> "returned",
                           inserted |-> name \notin DOMAIN registry,
                           before |-> registry, after |-> registry'])
    /\ UNCHANGED <<gridVars, search, likelihood>>

\* ModelFactory::lookupFactory(name): throws when find returns end(), else
\* returns i->second.
LookupFactory ==
    /\ Len(calls) < MaxCalls
    /\ \E name \in FactoryNames :
          calls' = Append(calls,
                       IF name \notin DOMAIN registry
                       THEN [fn |-> "lookupFactory", name |-> name, factory |-> 0,
                             outcome |-> "NotFound", inserted |-> FALSE,
                             before |-> registry, after |-> registry]
                       ELSE [fn |-> "lookupFactory", name |-> name,
                             factory |-> registry[name],
                             outcome |-> "returned", inserted |-> FALSE,
                             before |-> registry, after |-> registry])
    /\ UNCHANGED <<gridVars, search, registry, likelihood>>

RegistryNext == RegisterFactory \/ LookupFactory

SpecRegistry == RegistryInit /\ [][RegistryNext]_vars

(***************************************************************************)
(* ProjectedLikelihood (src/unnamed/part_000): the constructor from a list  *)
(* of epoch footprints, and computeModelMatrix.  An entry of _data is       *)
(* modelled by the number of the epoch that wrote it last (0: never         *)
(* written); a row of the model matrix likewise.                            *)
(***************************************************************************)
\* The lists of footprint areas a caller passes.
FootprintLists == UNION {[1..n -> 1..MaxPix] : n \in 0..MaxEpochs}

\* componentPixelSum(partialNumPixels, epochImagePtr)
ComponentPixelSum(partialNumPixels, nPix) == partialNumPixels + nPix

\* std::accumulate(begin, end, 0, componentPixelSum) over the first n
\* footprints.
RECURSIVE Accumulate(_, _)
Accumulate(footprints, n) ==
    IF n = 0 THEN 0
    ELSE ComponentPixelSum(Accumulate(footprints, n - 1), footprints[n])

\* Entry of the constructor up to its loop: _data and weights are allocated
\* with totPixels entries, dataOffset = 0.
LikelihoodInit ==
    /\ NoGrid
    /\ search = NoSearch
    /\ NoRegistry
    /\ \E fp \in FootprintLists :
          likelihood = [pc |-> "construct", footprints |-> fp,
                        totPixels |-> Accumulate(fp, Len(fp)), epochs |-> <<>>,
                        dataOffset |-> 0, k |-> 0,
                        data |-> [n \in 0..(Accumulate(fp, Len(fp)) - 1) |-> 0],
                        weights |-> [n \in 0..(Accumulate(fp, Len(fp)) - 1) |-> 0],
                        rows |-> [n \in 0..(Accumulate(fp, Len(fp)) - 1) |-> 0]]

\* array[ndarray::view(first, last)] = epoch
FillView(array, first, last, epoch) ==
    [n \in DOMAIN array |-> IF first <= n /\ n < last THEN epoch ELSE array[n]]

\* dataOffset at the end of an iteration of the constructor's loop: the loop
\* body computes dataEnd but never assigns dataOffset.
ConstructorOffsetAfter(dataOffset, dataEnd) == dataOffset

\* dataOffset = dataEnd at the end of an iteration of computeModelMatrix.
MatrixOffsetAfter(dataOffset, dataEnd) == dataEnd

\* One iteration of the constructor's loop over epochFootprintList.
ConstructEpoch ==
    /\ likelihood.pc = "construct"
    /\ likelihood.k < Len(likelihood.footprints)
    /\ LET nPix == likelihood.footprints[likelihood.k + 1]
           dataEnd == likelihood.dataOffset + nPix
       IN  likelihood' =
             [likelihood EXCEPT
                !.epochs = Append(@, nPix),
                !.data = FillView(@, likelihood.dataOffset, dataEnd, likelihood.k + 1),
                !.weights = FillView(@, likelihood.dataOffset, dataEnd, likelihood.k + 1),
                !.dataOffset = ConstructorOffsetAfter(@, dataEnd),
                !.k = @ + 1]
    /\ UNCHANGED <<gridVars, search, registry, calls>>

\* The constructor returns; computeModelMatrix is entered: dataOffset = 0.
ComputeModelMatrix ==
    /\ likelihood.pc = "construct"
    /\ likelihood.k = Len(likelihood.footprints)
    /\ likelihood' = [likelihood EXCEPT !.pc = "matrix", !.dataOffset = 0, !.k = 0]
    /\ UNCHANGED <<gridVars, search, registry, calls>>

\* One iteration of the loop of computeModelMatrix over _impl->epochs.
ModelMatrixEpoch ==
    /\ likelihood.pc = "matrix"
    /\ likelihood.k < Len(likelihood.epochs)
    /\ LET dataEnd == likelihood.dataOffset + likelihood.epochs[likelihood.k + 1]
       IN  likelihood' =
             [likelihood EXCEPT
                !.rows = FillView(@, likelihood.dataOffset, dataEnd, likelihood.k + 1),
                !.dataOffset = MatrixOffsetAfter(@, dataEnd),
                !.k = @ + 1]
    /\ UNCHANGED <<gridVars, search, registry, calls>>

ModelMatrixDone ==
    /\ likelihood.pc = "matrix"
    /\ likelihood.k = Len(likelihood.epochs)
    /\ likelihood' = [likelihood EXCEPT !.pc = "done"]
    /\ UNCHANGED <<gridVars, search, registry, calls>>

LikelihoodNext ==
    \/ ConstructEpoch
    \/ ComputeModelMatrix
    \/ ModelMatrixEpoch
    \/ ModelMatrixDone

SpecLikelihood == LikelihoodInit /\ [][LikelihoodNext]_vars

Next == BuildNext

Spec == Init /\ [][Next]_vars

(***************************************************************************)
(* Properties.                                                             *)
(***************************************************************************)
\* The grid components the grid Objects reference, as <<kind, pointer>>.
GridComponents ==
    {<<E, objects[k].comp[E]>> : E \in KindSet, k \in 1..objectsLast}
        \ {<<E, 0>> : E \in KindSet}

ActiveGridComponents == {c \in GridComponents : gcomps[c[1]][c[2]].active}

\* Objects a and b of `objs` reference one component instance of kind E.
Shares(objs, E, a, b) == objs[a].comp[E] # 0 /\ objs[a].comp[E] = objs[b].comp[E]

\* No Source constructor read the value of an absent Position.
CleanBuild == \A n \in 1..sourcesLast : sources[n].ctor = "complete" => ~sources[n].nullDeref

\* C1: in a built Grid the ranges [offset, offset + SIZE) of the active
\* components of the three kinds tile [0, parameterCount) without gap or
\* overlap, and every inactive component has offset -1.
C1_OffsetsTile ==
    pc = "built" =>
        /\ \A c \in ActiveGridComponents :
              /\ 0 <= gcomps[c[1]][c[2]].offset
              /\ gcomps[c[1]][c[2]].offset + SIZE(c[1]) <= parameterCount
        /\ \A c \in GridComponents \ ActiveGridComponents :
              gcomps[c[1]][c[2]].offset = -1
        /\ \A n \in 0..(parameterCount - 1) :
              Cardinality({c \in ActiveGridComponents :
                              /\ gcomps[c[1]][c[2]].offset <= n
                              /\ n < gcomps[c[1]][c[2]].offset + SIZE(c[1])}) = 1

\* A built Grid with active components of two kinds, the second of which
\* starts after a two-scalar range, and an inactive component.
C1_Witness ==
    /\ pc = "built"
    /\ CleanBuild
    /\ parameterCount >= 3
    /\ \E c \in ActiveGridComponents : gcomps[c[1]][c[2]].offset >= 2
    /\ GridComponents # ActiveGridComponents

\* C2: in a built Grid, for every kind, two Definition Objects reference the
\* same component instance iff the two grid Objects reference the same grid
\* component instance; an Object without a component of a kind maps to a
\* grid Object without one.
C2_SharingPreserved ==
    pc = "built" =>
        \A E \in KindSet : \A a, b \in 1..NumObjects :
            /\ Shares(definition.objects, E, a, b) <=> Shares(objects, E, a, b)
            /\ (definition.objects[a].comp[E] = 0) <=> (objects[a].comp[E] = 0)

\* A built Grid over two Objects that share a component of one kind and have
\* a component each of another kind.
C2_Witness ==
    /\ pc = "built"
    /\ CleanBuild
    /\ NumObjects >= 2
    /\ \E E \in KindSet : Shares(definition.objects, E, 1, 2)
    /\ \E E \in KindSet :
          /\ definition.objects[1].comp[E] # 0
          /\ definition.objects[2].comp[E] # 0
          /\ ~Shares(definition.objects, E, 1, 2)

\* C3: in the Definition that makeDefinition returns, two Objects share one
\* component instance of a kind exactly when they do in the Definition the
\* Grid was built from, and there is one new component per grid component.
C3_RoundTripSharing ==
    (op.name = "makeDefinition" /\ op.outcome = "returned") =>
        /\ Len(op.def.objects) = NumObjects
        /\ \A E \in KindSet : \A a, b \in 1..NumObjects :
              Shares(op.def.objects, E, a, b) <=> Shares(definition.objects, E, a, b)
        /\ \A E \in KindSet :
              Len(op.def.comps[E]) = Cardinality({c \in GridComponents : c[1] = E})

\* makeDefinition() has returned for a Grid whose two Objects share a
\* component of one kind and have a component each of another kind.
C3_Witness ==
    /\ CleanBuild
    /\ op.name = "makeDefinition"
    /\ op.outcome = "returned"
    /\ ~op.hasBuffer
    /\ ~op.nullDeref
    /\ NumObjects >= 2
    /\ \E E \in KindSet : Shares(op.def.objects, E, 1, 2)
    /\ \E E \in KindSet :
          /\ op.def.objects[1].comp[E] # 0
          /\ op.def.objects[2].comp[E] # 0
          /\ ~Shares(op.def.objects, E, 1, 2)

ArenaSlots ==
    {frames[k] : k \in 1..Len(frames)} \cup {objects[k] : k \in 1..Len(objects)}
        \cup {sources[k] : k \in 1..Len(sources)}

\* C4: when a step of the construction throws, the unwind destroys exactly
\* the elements whose construction completed: no destructor runs on an
\* element whose constructor did not complete, none runs twice, and after
\* the unwind every constructed element has been destroyed.
C4_UnwindExact ==
    /\ \A slot \in ArenaSlots : slot.dtor > 0 => slot.ctor = "complete"
    /\ \A slot \in ArenaSlots : slot.dtor <= 1
    /\ pc = "failed" => \A slot \in ArenaSlots : slot.ctor = "complete" => slot.dtor = 1

IdPresent == \E k \in 1..Len(search.array) : search.array[k] = search.id

\* C5: for an id absent from the sorted array, find fails with the not-found
\* error and reads no element outside the array.
C5_AbsentNotFound ==
    (search.pc = "done" /\ ~IdPresent) =>
        /\ search.result = "NotFound"
        /\ \A r \in search.reads : r < Len(search.array)

\* C6: for an id present in the sorted array, find returns the entry with
\* that id, the one a linear scan finds.
C6_PresentFound ==
    (search.pc = "done" /\ IdPresent) =>
        /\ search.result = "returned"
        /\ search.found < Len(search.array)
        /\ search.found + 1 = CHOOSE k \in 1..Len(search.array) : search.array[k] = search.id

\* find has returned the last entry of an array of three.
C6_Witness ==
    /\ search.pc = "done"
    /\ Len(search.array) = 3
    /\ search.id = search.array[3]
    /\ search.result = "returned"

\* C7: after writeParameters on a Grid built without undefined behaviour the
\* buffer holds the value of every active component at the component's
\* offset, and all parameterCount entries have been written.
C7_BufferHoldsValues ==
    (op.name = "writeParameters" /\ CleanBuild) =>
        /\ \A c \in ActiveGridComponents : \A n \in 1..SIZE(c[1]) :
              op.buffer[gcomps[c[1]][c[2]].offset + n - 1] = gcomps[c[1]][c[2]].value[n]
        /\ op.written = 0..(parameterCount - 1)

\* The definition component that Object k of the returned Definition has for
\* the kind E.
ReturnedComponent(E, k) == op.def.comps[E][op.def.objects[k].comp[E]]

\* C8: in the Definition that makeDefinition(buffer) returns, an active
\* component has the value in buffer[offset .. offset + SIZE) of its grid
\* counterpart and an inactive one the grid component's value; without a
\* buffer every component has the grid component's value.
C8_ValuesFromBuffer ==
    (op.name = "makeDefinition" /\ op.outcome = "returned") =>
        \A E \in KindSet : \A k \in 1..objectsLast :
            objects[k].comp[E] # 0 =>
                LET g == gcomps[E][objects[k].comp[E]]
                IN  /\ op.def.objects[k].comp[E] # 0
                    /\ ReturnedComponent(E, k).active = g.active
                    /\ ReturnedComponent(E, k).value =
                          IF op.hasBuffer /\ g.active
                          THEN [n \in 1..SIZE(E) |-> op.buffer[g.offset + n - 1]]
                          ELSE g.value

\* makeDefinition(buffer) has returned for a Grid with an active component at
\* a positive offset and an inactive component.
C8_Witness ==
    /\ CleanBuild
    /\ op.name = "makeDefinition"
    /\ op.outcome = "returned"
    /\ op.hasBuffer
    /\ ~op.nullDeref
    /\ \E c \in ActiveGridComponents : gcomps[c[1]][c[2]].offset > 0
    /\ GridComponents # ActiveGridComponents

\* C9: a Grid built from M Objects and N Frames holds M * N Sources; the
\* k-th Object owns the range [(k-1) * N, k * N) and the j-th Source of the
\* range pairs the Object with the j-th Frame.
C9_SourceRanges ==
    pc = "built" =>
        /\ sourcesLast = NumObjects * NumFrames
        /\ \A n \in 1..sourcesLast : sources[n].ctor = "complete"
        /\ \A k \in 1..NumObjects :
              /\ objects[k].sourcesFirst = (k - 1) * NumFrames
              /\ objects[k].sourcesLast = k * NumFrames
              /\ \A j \in 1..NumFrames :
                    /\ sources[objects[k].sourcesFirst + j].object = k
                    /\ sources[objects[k].sourcesFirst + j].frame = j

\* A Grid built from two Objects and two Frames.
C9_Witness ==
    /\ pc = "built"
    /\ CleanBuild
    /\ NumObjects = 2
    /\ NumFrames = 2
    /\ sourcesLast = 4

\* The sum of the pixel counts of the first n grid Frames.
RECURSIVE PixelsBefore(_)
PixelsBefore(n) == IF n = 0 THEN 0 ELSE PixelsBefore(n - 1) + definition.frames[n].npix

\* C10: in a built Grid pixelCount is the sum of the Frames' pixel counts and
\* each Frame's pixel offset is the sum of the pixel counts of the Frames
\* before it, so the Frames' pixel ranges tile [0, pixelCount).
C10_PixelRanges ==
    pc = "built" =>
        /\ pixelCount = PixelsBefore(NumFrames)
        /\ \A k \in 1..NumFrames :
              /\ frames[k].pixelCount = definition.frames[k].npix
              /\ frames[k].pixelOffset = PixelsBefore(k - 1)
        /\ \A n \in 0..(pixelCount - 1) :
              Cardinality({k \in 1..NumFrames :
                              /\ frames[k].pixelOffset <= n
                              /\ n < frames[k].pixelOffset + frames[k].pixelCount}) = 1

\* A Grid built from two Frames of different pixel counts, the first of more
\* than one pixel.
C10_Witness ==
    /\ pc = "built"
    /\ CleanBuild
    /\ NumFrames = 2
    /\ frames[1].pixelCount > 1
    /\ frames[1].pixelCount # frames[2].pixelCount

\* Some Frame of the Definition differs from the Definition in having a
\* coordinate system (which covers Frames that differ among themselves).
InconsistentWcs ==
    \E k \in 1..NumFrames : definition.frames[k].wcs # definition.wcs

\* C11: a Definition whose Frames are inconsistent in the presence of a
\* coordinate system, among themselves or with the Definition, never yields
\* a built Grid.
C11_InconsistentWcsFails == InconsistentWcs => pc # "built"

\* The Definition is consistent in the presence of coordinate systems, some
\* Object has no basis and some Frame has no PSF.
MissingBasisOrPsf ==
    /\ ~InconsistentWcs
    /\ \E k \in 1..NumObjects : ~definition.objects[k].basis
    /\ \E k \in 1..NumFrames : ~definition.frames[k].psf

\* C12: for a consistent Definition with an Object without a basis and a
\* Frame without a PSF, construction neither returns a Grid nor ends
\* otherwise than by the reported error.
C12_MissingBasisFails == MissingBasisOrPsf => pc \notin {"built", "crashed"}

\* C13: makeDefinition on a Grid built without undefined behaviour never
\* dereferences an absent coordinate system, returns, and the Definition it
\* returns has the Frame and Object identifiers of the Grid.
C13_MakeDefinitionSafe ==
    (op.name = "makeDefinition" /\ CleanBuild) =>
        /\ ~op.nullDeref
        /\ op.outcome = "returned"
        /\ {op.def.frames[k].id : k \in 1..Len(op.def.frames)}
              = {frames[k].id : k \in 1..framesLast}
        /\ {op.def.objects[k].id : k \in 1..Len(op.def.objects)}
              = {objects[k].id : k \in 1..objectsLast}

\* The position of the first Frame with the filter identifier of Frame k.
FirstSeen(k) ==
    CHOOSE n \in 1..k :
        /\ frames[n].filterId = frames[k].filterId
        /\ \A m \in 1..(n - 1) : frames[m].filterId # frames[k].filterId

\* C14: in a built Grid two Frames have the same filter index iff they have
\* the same filter identifier, the indices in use are 0..filterCount-1, an
\* identifier first seen later has a larger index, filterCount is the number
\* of distinct identifiers, and the registry _filters maps each identifier to
\* the index of its Frames.
C14_FilterIndicesDense ==
    pc = "built" =>
        /\ \A a, b \in 1..framesLast :
              (frames[a].filterIndex = frames[b].filterIndex)
                  <=> (frames[a].filterId = frames[b].filterId)
        /\ {frames[k].filterIndex : k \in 1..framesLast} = 0..(filterCount - 1)
        /\ \A a, b \in 1..framesLast :
              FirstSeen(a) < FirstSeen(b) => frames[a].filterIndex < frames[b].filterIndex
        /\ filterCount = Cardinality({frames[k].filterId : k \in 1..framesLast})
        /\ \A k \in 1..framesLast : filters[frames[k].filterId] = frames[k].filterIndex

\* A built Grid whose second Frame brings a filter identifier that is new and
\* smaller than the first Frame's.
C14_Witness ==
    /\ pc = "built"
    /\ framesLast >= 2
    /\ frames[2].filterId < frames[1].filterId
    /\ frames[1].filterIndex = 0
    /\ frames[2].filterIndex = 1
    /\ filterCount = 2

\* The registrations of the name of call n that were made before call n.
EarlierRegistrations(n) ==
    {m \in 1..(n - 1) : calls[m].fn = "registerFactory" /\ calls[m].name = calls[n].name}

\* C15: in every sequence of calls, registerFactory returns true exactly for a
\* name not registered before and never throws, a duplicate registration
\* leaves the registry unchanged, lookupFactory returns the factory of the
\* first registration of the name and fails with the not-found error for a
\* name never registered.
C15_RegistryContract ==
    \A n \in 1..Len(calls) :
        LET c == calls[n]
            earlier == EarlierRegistrations(n)
        IN  /\ c.fn = "registerFactory" =>
                 /\ c.outcome = "returned"
                 /\ c.inserted <=> (earlier = {})
                 /\ ~c.inserted => c.after = c.before
            /\ c.fn = "lookupFactory" =>
                 /\ (c.outcome = "NotFound") <=> (earlier = {})
                 /\ c.outcome = "returned" =>
                       c.factory = calls[CHOOSE m \in earlier :
                                            \A x \in earlier : m <= x].factory

\* A name is registered, registered again with another factory, which is
\* refused, and then looked up.
C15_Witness ==
    /\ Len(calls) = 3
    /\ calls[1].fn = "registerFactory" /\ calls[1].inserted
    /\ calls[2].fn = "registerFactory" /\ ~calls[2].inserted
    /\ calls[2].name = calls[1].name /\ calls[2].factory # calls[1].factory
    /\ calls[3].fn = "lookupFactory" /\ calls[3].name = calls[1].name
    /\ calls[3].outcome = "returned"

\* initializeGrid is in its catch block and no constructor threw: the
\* exception came out of grid::Object::validate.
ValidateFailed ==
    /\ pc = "catch"
    /\ \A k \in 1..framesLast : frames[k].ctor # "threw"
    /\ \A k \in 1..objectsLast : objects[k].ctor # "threw"
    /\ \A k \in 1..sourcesLast : sources[k].ctor # "threw"

\* C16: when validate fails for an Object, no Source has been constructed.
C16_ValidateBeforeSources ==
    (ValidateFailed /\ CleanBuild) => sourcesLast = 0

\* C17: an Object is constructed only after every Frame, a Source only after
\* every Object and after the components are attached to the Objects; a
\* destructor runs on an Object only after one ran on every Source, on a
\* Frame only after one ran on every Object, and the raw buffers are
\* released only after the three ranges are destroyed.
C17_ArenaOrder ==
    /\ (\E k \in 1..Len(objects) : objects[k].ctor # "raw") =>
          /\ framesLast = NumFrames
          /\ \A n \in 1..NumFrames : frames[n].ctor = "complete"
    /\ (\E k \in 1..Len(sources) : sources[k].ctor # "raw") =>
          /\ objectsLast = NumObjects
          /\ \A n \in 1..NumObjects :
                /\ objects[n].ctor = "complete"
                /\ \A E \in KindSet :
                      (objects[n].comp[E] = 0) <=> (definition.objects[n].comp[E] = 0)
    /\ (\E k \in 1..Len(objects) : objects[k].dtor > 0) =>
          \A n \in 1..sourcesLast : sources[n].dtor > 0
    /\ (\E k \in 1..Len(frames) : frames[k].dtor > 0) =>
          \A n \in 1..objectsLast : objects[n].dtor > 0
    /\ released =>
          /\ \A n \in 1..sourcesLast : sources[n].dtor > 0
          /\ \A n \in 1..objectsLast : objects[n].dtor > 0
          /\ \A n \in 1..framesLast : frames[n].dtor > 0

\* A Grid with Frames, Objects that carry components, and Sources was built
\* and then destroyed by its destructor, and the buffers are released.
C17_Witness ==
    /\ pc = "destroyed"
    /\ released
    /\ CleanBuild
    /\ framesLast = 2
    /\ objectsLast = 2
    /\ sourcesLast = 4
    /\ \A n \in 1..objectsLast : objects[n].comp["POSITION"] # 0
    /\ \A n \in 1..sourcesLast : sources[n].ctor = "complete" /\ sources[n].dtor = 1

\* The components the last checkBounds or clipToBounds visited.
VisitSet == {op.visits[k] : k \in 1..Len(op.visits)}

\* No component was visited twice, and the visits went Position, Radius,
\* Ellipticity.
VisitsOnceInKindOrder ==
    /\ Cardinality(VisitSet) = Len(op.visits)
    /\ \A a, b \in 1..Len(op.visits) :
          a < b => KindTag(op.visits[a][1]) <= KindTag(op.visits[b][1])

\* The sum of the penalties of the components in S on the vector `buffer`.
RECURSIVE SumPenalties(_, _)
SumPenalties(S, buffer) ==
    IF S = {} THEN 0
    ELSE LET c == CHOOSE x \in S : TRUE
         IN  ComponentPenalty(c[1], gcomps[c[1]][c[2]], buffer, 0)
                + SumPenalties(S \ {c}, buffer)

\* Every unique active component passes its own check on `buffer`.
AllPass(buffer) ==
    \A c \in ActiveGridComponents : ComponentCheckBounds(c[1], gcomps[c[1]][c[2]], buffer)

\* C18 as stated, on a Grid built without undefined behaviour: checkBounds
\* and clipToBounds each visit every unique active
\* component exactly once and no inactive one; the clipToBounds total is the
\* sum of the per-component penalties, and checkBounds is true iff every
\* unique active component passes.
C18_VisitEachExactlyOnce ==
    (op.name \in {"checkBounds", "clipToBounds"} /\ CleanBuild) =>
        /\ VisitSet = ActiveGridComponents
        /\ VisitsOnceInKindOrder
        /\ op.name = "clipToBounds" =>
              op.penalty = SumPenalties(ActiveGridComponents, op.input)
        /\ op.name = "checkBounds" => (op.passed <=> AllPass(op.input))

\* C18, amended: clipToBounds visits every unique active component exactly
\* once and no inactive one, and its total is the sum of the per-component
\* penalties; checkBounds visits unique active components, each at most once
\* and in the same order, stops at the first one whose check fails, visits
\* all of them when it returns true, and is true iff every one passes.
C18_VisitEachAtMostOnce ==
    /\ op.name = "clipToBounds" =>
          /\ VisitSet = ActiveGridComponents
          /\ VisitsOnceInKindOrder
          /\ op.penalty = SumPenalties(ActiveGridComponents, op.input)
    /\ op.name = "checkBounds" =>
          /\ VisitSet \subseteq ActiveGridComponents
          /\ VisitsOnceInKindOrder
          /\ op.passed <=> AllPass(op.input)
          /\ op.passed => VisitSet = ActiveGridComponents
          /\ \A k \in 1..Len(op.visits) :
                ComponentCheckBounds(op.visits[k][1],
                                     gcomps[op.visits[k][1]][op.visits[k][2]], op.input)
                    <=> (k < Len(op.visits) \/ op.passed)

\* clipToBounds ran on a vector infeasible everywhere, over a Grid in which
\* two Objects share an active component, a second component is active and a
\* third is inactive.
C18_Witness ==
    /\ op.name = "clipToBounds"
    /\ CleanBuild
    /\ objectsLast >= 2
    /\ \E E \in KindSet :
          /\ objects[1].comp[E] # 0
          /\ objects[1].comp[E] = objects[2].comp[E]
          /\ gcomps[E][objects[1].comp[E]].active
    /\ Cardinality(ActiveGridComponents) >= 2
    /\ GridComponents # ActiveGridComponents
    /\ op.penalty = parameterCount
    /\ op.penalty >= 3

\* C19: once the constructor has returned, the data and the weights of epoch
\* e fill the slice that starts at the sum of the pixel counts of the epochs
\* before e and has the pixel count of e, which is the row range that
\* computeModelMatrix uses for epoch e; the slices cover all totPixels
\* entries.
C19_EpochSlices ==
    /\ likelihood.pc \in {"matrix", "done"} =>
          \A e \in 1..Len(likelihood.footprints) :
             \A n \in Accumulate(likelihood.footprints, e - 1)
                        ..(Accumulate(likelihood.footprints, e) - 1) :
                likelihood.data[n] = e /\ likelihood.weights[n] = e
    /\ likelihood.pc = "done" =>
          /\ likelihood.rows = likelihood.data
          /\ \A n \in 0..(likelihood.totPixels - 1) : likelihood.data[n] # 0

\* The Definition has an Object without a Position component, and a Frame
\* with a PSF or a coordinate system of its own.
AbsentPositionInput ==
    /\ \E k \in 1..NumObjects : definition.objects[k].comp["POSITION"] = 0
    /\ definition.wcs \/ \E k \in 1..NumFrames : definition.frames[k].psf

\* C20: the construction of a Grid over such a Definition never reads the
\* value of an absent Position component: no Source constructor dies on the
\* read, and none completes after having made it.
C20_NoAbsentPositionRead ==
    AbsentPositionInput =>
        \A n \in 1..Len(sources) :
            /\ sources[n].ctor # "crash"
            /\ sources[n].ctor = "complete" => ~sources[n].nullDeref
====
